---- MODULE Spec2Model ----
(***************************************************************************)
(* Model of app.py: the raster classifier (raster_bounds_4326,             *)
(* classify_raster_to_rgba), the map builder (build_raster_map) and the    *)
(* top-level script that imports the optional libraries, loads and         *)
(* validates the table and dispatches on the selected view.                *)
(*                                                                         *)
(* Two specifications share the definitions:                               *)
(*   Spec     calls classify_raster_to_rgba, statement by statement, on    *)
(*            the two raster paths in any order;                           *)
(*   SpecApp  is one run of the script from its first line.                *)
(***************************************************************************)
EXTENDS Integers, Sequences, FiniteSets, TLC

VARIABLES
    fs,        \* the raster files on disk: path -> file content (never written)
    pc,        \* position inside classify_raster_to_rgba / raster_bounds_4326
    cur,       \* tif_path of the call in progress (or of the last call)
    nOpen,     \* number of raster handles currently open
    bounds,    \* local `bounds` of classify_raster_to_rgba (line 71)
    warped,    \* whether transform_bounds was called by the current call
    band,      \* local `band` after astype("float32") (line 77)
    masks,     \* locals is_nodata, is_background, is_hyacinth (lines 80-89)
    ret,       \* what the call returned or raised
    prev,      \* history: per path, the outcome of the last earlier call
    ncalls,    \* number of calls started
    apc,       \* position of the script run
    missingLibs, \* environment: the optional libraries that are not installed
    eagerAnnotations, \* environment: the interpreter evaluates annotations at def time
    bound,     \* module-level names bound by the imports of lines 8-12
    HAS_OVERLAY, \* line 6 / line 14
    menu,      \* line 181
    csv,       \* the header line of water_hyacinth_2025.csv, as read at line 31
    data,      \* line 189: the columns of the loaded table
    out,       \* what the run has put on the page, in order
    opacity,   \* line 261, in steps of 0.05
    exc        \* the exception that left the script uncaught, if any

rasterVars == <<pc, cur, nOpen, bounds, warped, band, masks, ret, prev, ncalls>>
appVars == <<apc, missingLibs, eagerAnnotations, bound, HAS_OVERLAY, menu, csv, data, out,
             opacity, exc>>
vars == <<fs, rasterVars, appVars>>

(***************************************************************************)
(* Bounds                                                                  *)
(***************************************************************************)
MaxCalls == 3

(***************************************************************************)
(* Pixel values.  A band holds doubles: a number or NaN.  The numbers used *)
(* here are whole, so that float32 rounding is exact integer arithmetic.   *)
(***************************************************************************)
NaN == [nan |-> TRUE, v |-> 0]
Num(n) == [nan |-> FALSE, v |-> n]

\* float32 has a 24-bit significand: whole numbers up to 2^24 are exact.
Float32Exact == 16777216

Abs(n) == IF n < 0 THEN -n ELSE n

\* Round a whole number of magnitude in (2^24, 2^25) to float32: the
\* representable neighbours are the even numbers, ties go to the even
\* significand.
RoundEven(n) ==
    LET a == Abs(n)
        lo == 2 * (a \div 2)
        r == IF a % 2 = 0 THEN a
             ELSE IF (lo \div 2) % 2 = 0 THEN lo ELSE lo + 2
    IN IF n < 0 THEN -r ELSE r

\* line 77: band.astype("float32"), one element.
astype_float32(x) ==
    IF x.nan THEN NaN
    ELSE IF Abs(x.v) <= Float32Exact THEN x
    ELSE Num(RoundEven(x.v))

\* A declared or undeclared no-data sentinel (src.nodata is a float or None).
NoNodata == [declared |-> FALSE, val |-> NaN]
Nodata(x) == [declared |-> TRUE, val |-> x]

\* numpy comparisons of a float32 element with a Python float: the scalar
\* is converted to float32; NaN compares false with everything.
Eq32(x, y) == ~x.nan /\ ~astype_float32(y).nan /\ x.v = astype_float32(y).v
LeZero(x) == ~x.nan /\ x.v <= 0
GtZero(x) == ~x.nan /\ x.v > 0

\* lines 80-83, one element: x is the float32 element.
is_nodata(x, nodata) ==
    IF nodata.declared THEN Eq32(x, nodata.val) \/ x.nan ELSE x.nan

\* line 86 without the no-data term.
is_background_value_only(x, nodata) == LeZero(x)

\* line 86, one element.
is_background(x, nodata) == is_nodata(x, nodata) \/ LeZero(x)

\* line 89 without the no-data term.
is_hyacinth_value_only(x, nodata) == GtZero(x)

\* line 89, one element.
is_hyacinth(x, nodata) == (~is_nodata(x, nodata)) /\ GtZero(x)

Zero == <<0, 0, 0, 0>>
Blue == <<0, 120, 255, 180>>
Green == <<0, 200, 0, 220>>

\* Grids are sequences of rows.
Height(g) == Len(g)
Width(g) == IF Len(g) = 0 THEN 0 ELSE Len(g[1])

\* lines 74-77: src.read(1) then astype("float32").
ReadBand(f) ==
    [i \in 1..Len(f.band) |->
        [j \in 1..Len(f.band[i]) |-> astype_float32(f.band[i][j])]]

\* lines 80-89: the three boolean grids.
BuildMasks(b, nodata) ==
    [is_nodata |->
        [i \in 1..Len(b) |-> [j \in 1..Len(b[i]) |-> is_nodata(b[i][j], nodata)]],
     is_background |->
        [i \in 1..Len(b) |-> [j \in 1..Len(b[i]) |-> is_background(b[i][j], nodata)]],
     is_hyacinth |->
        [i \in 1..Len(b) |-> [j \in 1..Len(b[i]) |-> is_hyacinth(b[i][j], nodata)]]]

\* lines 91-98: zeros, then the background colour, then the hyacinth colour.
Paint(m) ==
    LET h == Height(m.is_background)
        w == Width(m.is_background)
        zeros == [i \in 1..h |-> [j \in 1..w |-> Zero]]
        step1 == [i \in 1..h |-> [j \in 1..w |->
                    IF m.is_background[i][j] THEN Blue ELSE zeros[i][j]]]
    IN [i \in 1..h |-> [j \in 1..w |->
            IF m.is_hyacinth[i][j] THEN Green ELSE step1[i][j]]]

(***************************************************************************)
(* Bounds and CRS.  A CRS is known by its str(); "" stands for a CRS that  *)
(* is None or empty (both falsy at line 55).                               *)
(***************************************************************************)
TargetCRS == "EPSG:4326"
CRSs == {"", "EPSG:4326", "epsg:4326", "EPSG:32735"}

\* str.upper() on the CRS strings of the model.
Upper(s) == IF s = "epsg:4326" THEN "EPSG:4326" ELSE s

\* line 55 without .upper().
NeedsReprojectionCaseSensitive(crs) == crs # "" /\ crs # TargetCRS

\* line 55: the condition of the if.
NeedsReprojection(crs) == crs # "" /\ Upper(crs) # TargetCRS

\* lines 56-58: rasterio.warp.transform_bounds, a library call; what matters
\* here is that it returns other numbers than it was given.
transform_bounds(crs, left, bottom, right, top) ==
    <<left + 100, bottom + 200, right + 300, top + 400>>

\* line 61: [[south, west], [north, east]].
Corners(west, south, east, north) == <<<<south, west>>, <<north, east>>>>

\* lines 53-61: the body of the with block of raster_bounds_4326.
BoundsOf(f) ==
    LET b == f.native
        t == IF NeedsReprojection(f.crs)
             THEN transform_bounds(f.crs, b.left, b.bottom, b.right, b.top)
             ELSE <<b.left, b.bottom, b.right, b.top>>
    IN Corners(t[1], t[2], t[3], t[4])

(***************************************************************************)
(* The raster files.                                                       *)
(***************************************************************************)
WinterTif == "Winter_2025_Hyacinth_Map.tif"
SummerTif == "Summer_2025_Hyacinth_Map.tif"
Paths == {WinterTif, SummerTif}

Big == Float32Exact + 1
\* The sentinel of the scenario in the specification.
ScenarioSentinel == Num(-9999)

\* The 2x2 band of the scenario in the specification.
ScenarioBand == << <<ScenarioSentinel, Num(0)>>, <<Num(5), Num(-3)>> >>

Bands ==
    { ScenarioBand,
      << <<Num(Float32Exact), Num(Big)>> >>,
      << <<Num(5)>>, <<NaN>> >> }

Sentinels == {NoNodata, Nodata(ScenarioSentinel), Nodata(Num(5)), Nodata(Num(Big))}

NativeBounds == [left |-> 10, bottom |-> 20, right |-> 11, top |-> 21]

\* fault: which statement fails when the file is read ("none": no failure).
GoodFiles ==
    [band : Bands, nodata : Sentinels, crs : CRSs, native : {NativeBounds},
     fault : {"none"}]

FaultyFiles ==
    [band : {<< <<Num(5)>>, <<NaN>> >>}, nodata : {NoNodata},
     crs : {"EPSG:32735"}, native : {NativeBounds},
     fault : {"open", "transform", "read", "mask"}]

Files == GoodFiles \cup FaultyFiles

(***************************************************************************)
(* Outcomes of a call.                                                     *)
(***************************************************************************)
NoResult == [kind |-> "none", rgba |-> <<>>, bounds |-> <<>>]
Raised == [kind |-> "raised", rgba |-> <<>>, bounds |-> <<>>]
Returned(rgba, b) == [kind |-> "ok", rgba |-> rgba, bounds |-> b]

\* `with rasterio.open(...) as src:` that releases the handle only when the
\* block ends without an exception.
WithExitLeaky(n, raising) == IF raising THEN n ELSE n - 1

\* lines 52 and 73: leaving the with block closes the handle, whether the
\* block ends normally or by an exception.
WithExit(n, raising) == n - 1

\* raster_bounds_4326 with west, south, east, north kept at module level and
\* no else branch: a raster that needs no reprojection gets the numbers the
\* last reprojected raster left behind.
BoundsStale(p) ==
    IF NeedsReprojection(fs[p].crs) THEN BoundsOf(fs[p])
    ELSE IF \E q \in Paths : prev[q].kind = "ok" /\ NeedsReprojection(fs[q].crs)
    THEN prev[CHOOSE q \in Paths :
                  prev[q].kind = "ok" /\ NeedsReprojection(fs[q].crs)].bounds
    ELSE BoundsOf(fs[p])

\* line 71: what raster_bounds_4326(tif_path) computes for the file at the path.
raster_bounds_4326(p) == BoundsOf(fs[p])

(***************************************************************************)
(* classify_raster_to_rgba, statement by statement (specification Spec).   *)
(***************************************************************************)
NoMasks == [is_nodata |-> <<>>, is_background |-> <<>>, is_hyacinth |-> <<>>]

AppIdle ==
    /\ apc = "off"
    /\ missingLibs = {}
    /\ eagerAnnotations = FALSE
    /\ bound = {}
    /\ HAS_OVERLAY = TRUE
    /\ menu = ""
    /\ csv = <<>>
    /\ data = <<>>
    /\ out = <<>>
    /\ opacity = 0
    /\ exc = "none"

RasterIdle ==
    /\ pc = "idle"
    /\ cur = ""
    /\ nOpen = 0
    /\ bounds = <<>>
    /\ warped = FALSE
    /\ band = <<>>
    /\ masks = NoMasks
    /\ ret = NoResult
    /\ prev = [p \in Paths |-> NoResult]
    /\ ncalls = 0

Init ==
    /\ fs \in [Paths -> Files]
    /\ RasterIdle
    /\ AppIdle

\* The frame of the call is gone: its locals no longer exist.
DropLocals ==
    /\ bounds' = <<>>
    /\ band' = <<>>
    /\ masks' = NoMasks

\* A caller invokes classify_raster_to_rgba(p) (line 64); line 71 enters
\* raster_bounds_4326.
Call(p) ==
    /\ pc \in {"idle", "done"}
    /\ ncalls < MaxCalls
    /\ prev' = IF pc = "done" THEN [prev EXCEPT ![cur] = ret] ELSE prev
    /\ cur' = p
    /\ ncalls' = ncalls + 1
    /\ pc' = "b_open"
    /\ ret' = NoResult
    /\ warped' = FALSE
    /\ DropLocals
    /\ UNCHANGED <<fs, nOpen, appVars>>

\* line 52: rasterio.open(tif_path) inside raster_bounds_4326.
BoundsOpen ==
    /\ pc = "b_open"
    /\ IF fs[cur].fault = "open"
       THEN /\ pc' = "done"
            /\ ret' = Raised
            /\ nOpen' = nOpen
       ELSE /\ pc' = "b_body"
            /\ ret' = ret
            /\ nOpen' = nOpen + 1
    /\ UNCHANGED <<fs, cur, bounds, warped, band, masks, prev, ncalls, appVars>>

\* lines 53-61: the with block of raster_bounds_4326 and its return.
BoundsBody ==
    /\ pc = "b_body"
    /\ warped' = NeedsReprojection(fs[cur].crs)
    /\ IF NeedsReprojection(fs[cur].crs) /\ fs[cur].fault = "transform"
       THEN /\ nOpen' = WithExit(nOpen, TRUE)
            /\ pc' = "done"
            /\ ret' = Raised
            /\ bounds' = bounds
       ELSE /\ nOpen' = WithExit(nOpen, FALSE)
            /\ pc' = "c_open"
            /\ ret' = ret
            /\ bounds' = raster_bounds_4326(cur)
    /\ UNCHANGED <<fs, cur, band, masks, prev, ncalls, appVars>>

\* line 73: the second rasterio.open(tif_path).
ClassifyOpen ==
    /\ pc = "c_open"
    /\ nOpen' = nOpen + 1
    /\ pc' = "c_read"
    /\ UNCHANGED <<fs, cur, bounds, warped, band, masks, ret, prev, ncalls, appVars>>

\* lines 74-77: src.read(1), src.nodata, astype("float32").
ClassifyRead ==
    /\ pc = "c_read"
    /\ IF fs[cur].fault = "read"
       THEN /\ nOpen' = WithExit(nOpen, TRUE)
            /\ pc' = "done"
            /\ ret' = Raised
            /\ DropLocals
       ELSE /\ nOpen' = nOpen
            /\ pc' = "c_mask"
            /\ band' = ReadBand(fs[cur])
            /\ UNCHANGED <<ret, bounds, masks>>
    /\ UNCHANGED <<fs, cur, warped, prev, ncalls, appVars>>

\* lines 80-89: is_nodata, is_background, is_hyacinth.
ClassifyMask ==
    /\ pc = "c_mask"
    /\ IF fs[cur].fault = "mask"
       THEN /\ nOpen' = WithExit(nOpen, TRUE)
            /\ pc' = "done"
            /\ ret' = Raised
            /\ DropLocals
       ELSE /\ nOpen' = nOpen
            /\ pc' = "c_paint"
            /\ masks' = BuildMasks(band, fs[cur].nodata)
            /\ UNCHANGED <<ret, bounds, band>>
    /\ UNCHANGED <<fs, cur, warped, prev, ncalls, appVars>>

\* lines 91-100: the RGBA grid, the return, and the end of the with block.
ClassifyPaint ==
    /\ pc = "c_paint"
    /\ ret' = Returned(Paint(masks), bounds)
    /\ nOpen' = WithExit(nOpen, FALSE)
    /\ pc' = "done"
    /\ DropLocals
    /\ UNCHANGED <<fs, cur, warped, prev, ncalls, appVars>>

Next ==
    \/ \E p \in Paths : Call(p)
    \/ BoundsOpen
    \/ BoundsBody
    \/ ClassifyOpen
    \/ ClassifyRead
    \/ ClassifyMask
    \/ ClassifyPaint

Spec == Init /\ [][Next]_vars

(***************************************************************************)
(* Properties of the classifier (checked under Spec).                      *)
(***************************************************************************)
Pixels(g) == {ij \in (1..Height(g)) \X (1..Width(g)) : TRUE}
RawAt(ij) == fs[cur].band[ij[1]][ij[2]]

\* The value in the file is the declared sentinel.
EqualsSentinel(v, nodata) ==
    nodata.declared /\ ~v.nan /\ ~nodata.val.nan /\ v.v = nodata.val.v

\* The value in the file is no-data: the declared sentinel, or NaN.
RawNoData(v, nodata) == v.nan \/ EqualsSentinel(v, nodata)

MasksBuilt == pc = "c_paint"
ReturnedOk == pc = "done" /\ ret.kind = "ok"

\* C1: every pixel value v of the band is Background iff v is no-data or
\* v <= 0, and Hyacinth iff v is not no-data and v > 0; the two masks are
\* disjoint and cover the band.
C1_ClassifiesFileValues ==
    MasksBuilt =>
        \A ij \in Pixels(fs[cur].band) :
            LET v == RawAt(ij)
                nd == fs[cur].nodata
                bg == masks.is_background[ij[1]][ij[2]]
                hy == masks.is_hyacinth[ij[1]][ij[2]]
            IN /\ bg <=> (RawNoData(v, nd) \/ (~v.nan /\ v.v <= 0))
               /\ hy <=> (~RawNoData(v, nd) /\ ~v.nan /\ v.v > 0)
               /\ ~(bg /\ hy)
               /\ bg \/ hy

\* C2: a pixel whose value equals the declared sentinel is Background and
\* never Hyacinth, whatever the sentinel's sign or size: the masks say so and
\* the returned grid holds the background colour there.
C2_SentinelIsBackground ==
    /\ MasksBuilt =>
        \A ij \in Pixels(fs[cur].band) :
            EqualsSentinel(RawAt(ij), fs[cur].nodata) =>
                /\ masks.is_background[ij[1]][ij[2]]
                /\ ~masks.is_hyacinth[ij[1]][ij[2]]
    /\ ReturnedOk =>
        \A ij \in Pixels(fs[cur].band) :
            EqualsSentinel(RawAt(ij), fs[cur].nodata) =>
                ret.rgba[ij[1]][ij[2]] = Blue

\* A call has returned a grid in which a pixel holding a strictly positive
\* sentinel is blue.
C2_Witness ==
    /\ ReturnedOk
    /\ \E ij \in Pixels(fs[cur].band) :
        /\ EqualsSentinel(RawAt(ij), fs[cur].nodata)
        /\ RawAt(ij).v > 0
        /\ ret.rgba[ij[1]][ij[2]] = Blue

\* C3: the returned grid has the height and width of the band, and every
\* pixel is (0,120,255,180) when the pixel is Background and (0,200,0,220)
\* when it is Hyacinth; none is left (0,0,0,0).
C3_TwoColours ==
    ReturnedOk =>
        /\ Height(ret.rgba) = Height(fs[cur].band)
        /\ \A i \in 1..Height(ret.rgba) : Len(ret.rgba[i]) = Len(fs[cur].band[i])
        /\ \A ij \in Pixels(fs[cur].band) :
            LET x == astype_float32(RawAt(ij))
                nd == fs[cur].nodata
                c == ret.rgba[ij[1]][ij[2]]
            IN /\ c \in {Blue, Green}
               /\ c # Zero
               /\ (c = Blue) <=> is_background(x, nd)
               /\ (c = Green) <=> is_hyacinth(x, nd)

\* A grid came back with both colours in it, blue on a NaN pixel.
C3_Witness ==
    /\ ReturnedOk
    /\ Height(ret.rgba) = 2
    /\ \E ij \in Pixels(fs[cur].band) : ret.rgba[ij[1]][ij[2]] = Green
    /\ \E ij \in Pixels(fs[cur].band) :
        RawAt(ij).nan /\ ret.rgba[ij[1]][ij[2]] = Blue

\* The CRS is the target CRS (in either spelling of its name) or is absent.
CrsIsTargetOrAbsent(crs) == crs \in {"", "EPSG:4326", "epsg:4326"}

BoundsComputed == pc \in {"c_open", "c_read", "c_mask", "c_paint"}

NativeCorners(f) ==
    <<<<f.native.bottom, f.native.left>>, <<f.native.top, f.native.right>>>>

\* C4: raster_bounds_4326 returns the native bounds unchanged, as
\* [[south, west], [north, east]], when the CRS is the target CRS or absent,
\* and calls the reprojection only when the CRS is present and differs.
C4_NativeBoundsKept ==
    /\ warped => ~CrsIsTargetOrAbsent(fs[cur].crs)
    /\ BoundsComputed =>
        /\ warped <=> ~CrsIsTargetOrAbsent(fs[cur].crs)
        /\ CrsIsTargetOrAbsent(fs[cur].crs) => bounds = NativeCorners(fs[cur])
    /\ (ReturnedOk /\ CrsIsTargetOrAbsent(fs[cur].crs)) =>
        ret.bounds = NativeCorners(fs[cur])

\* The bounds of a raster in the target CRS came back as [[20, 10], [21, 11]].
C4_Witness ==
    /\ BoundsComputed
    /\ fs[cur].crs \in {"EPSG:4326", "epsg:4326"}
    /\ ~warped
    /\ bounds = <<<<20, 10>>, <<21, 11>>>>

\* C5: a call on a file returns what the earlier call on the same file
\* returned (grid and bounds, or the failure), whatever calls on the other
\* file came in between.
C5_SameFileSameResult ==
    (pc = "done" /\ prev[cur].kind # "none") => ret = prev[cur]

\* The third call, on the file of the first, has returned the same grid and
\* bounds, with a call on a different file in between.
C5_Witness ==
    /\ pc = "done"
    /\ ncalls = 3
    /\ ret.kind = "ok"
    /\ ret = prev[cur]
    /\ \E q \in Paths : q # cur /\ prev[q].kind = "ok" /\ prev[q] # ret

\* C9: a raster handle is open only inside a with block: none is open when
\* a rasterio.open is about to run, none after the call returns or raises, and
\* never more than one.
C9_HandlesClosed ==
    /\ nOpen \in {0, 1}
    /\ pc \in {"idle", "b_open", "c_open", "done"} => nOpen = 0
    /\ pc \in {"b_body", "c_read", "c_mask", "c_paint"} => nOpen = 1

\* The mask computation failed and the call raised with no handle left open.
C9_Witness ==
    /\ pc = "done"
    /\ ret.kind = "raised"
    /\ fs[cur].fault = "mask"
    /\ nOpen = 0

(***************************************************************************)
(* classify_raster_to_rgba and build_raster_map as whole calls, as the     *)
(* script uses them.                                                       *)
(***************************************************************************)
\* Whether reading the file raises, and where (lines 52, 56, 74, 80-89).
Fails(f) ==
    \/ f.fault \in {"open", "read", "mask"}
    \/ f.fault = "transform" /\ NeedsReprojection(f.crs)

\* lines 64-100: the whole call.
classify_raster_to_rgba(p) ==
    IF Fails(fs[p]) THEN Raised
    ELSE Returned(Paint(BuildMasks(ReadBand(fs[p]), fs[p].nodata)),
                  raster_bounds_4326(p))

\* build_raster_map that skips the fit and the legend when the overlay is
\* fully transparent (`if opacity:`).
BuildMapSkipsWhenTransparent(res, map_title, op) ==
    LET b == res.bounds
    IN [location |-> <<b[1][1] + b[2][1], b[1][2] + b[2][2]>>,
        zoom_start |-> 12,
        overlay |-> [image |-> res.rgba, bounds |-> b, opacity |-> op,
                     name |-> map_title],
        fit |-> IF op = 0 THEN <<>> ELSE b,
        layer_control |-> TRUE,
        legend |-> IF op = 0 THEN "" ELSE map_title]

\* lines 152-174: the map built from the classifier's result.  location is
\* kept as twice the centre (south + north, west + east) to stay in whole
\* numbers; opacity is in steps of 0.05.
BuildMap(res, map_title, op) ==
    LET b == res.bounds
    IN [location |-> <<b[1][1] + b[2][1], b[1][2] + b[2][2]>>,
        zoom_start |-> 12,
        overlay |-> [image |-> res.rgba, bounds |-> b, opacity |-> op,
                     name |-> map_title],
        fit |-> b,
        layer_control |-> TRUE,
        legend |-> map_title]

(***************************************************************************)
(* The table.  A column name is its text with leading and trailing blanks. *)
(***************************************************************************)
Name(c) == [lead |-> 0, text |-> c, trail |-> 0]
PaddedName(c) == [lead |-> 1, text |-> c, trail |-> 2]

\* str.strip() on a column name.
strip(n) == [lead |-> 0, text |-> n.text, trail |-> 0]

Required == <<"Season", "Month", "Area_km2", "Latitude", "Longitude">>
RequiredSet == {Required[i] : i \in DOMAIN Required}

\* The header of a csv file that lacks the columns `absent`; it always has
\* a column "Notes" that nothing requires.
Header(absent, padded) ==
    LET keep(c) == c \notin absent
        cols == SelectSeq(Required, keep) \o <<"Notes">>
    IN [i \in DOMAIN cols |-> IF padded THEN PaddedName(cols[i]) ELSE Name(cols[i])]

Tables == {Header(absent, padded) : absent \in SUBSET RequiredSet, padded \in BOOLEAN}

\* load_data that keeps the column names as they are in the file.
load_data_unstripped(header) == header

\* lines 30-36: the columns of the frame load_data returns (line 32; the
\* numeric coercion of lines 33-35 changes no column name).
load_data(header) == [i \in DOMAIN header |-> strip(header[i])]

Columns(df) == {df[i] : i \in DOMAIN df}

\* line 40: missing = [c for c in required if c not in df.columns]
MissingColumns(df, required) ==
    LET absent(c) == Name(c) \notin Columns(df)
    IN SelectSeq(required, absent)

(***************************************************************************)
(* One run of the script (specification SpecApp).  `out` is the main page  *)
(* area; the sidebar of lines 180-184 is not part of it.                   *)
(***************************************************************************)
Event(kind, arg) == [kind |-> kind, arg |-> arg]

ImportOrder == <<"numpy", "folium", "streamlit_folium", "rasterio">>
Libs == {ImportOrder[i] : i \in DOMAIN ImportOrder}

Views == {"Project Overview", "Seasonal Data Explorer", "Map View", "Contact"}

InstallMessage == "GeoTIFF overlay requires additional libraries."

OpacitySteps == 0..20

AppFiles ==
    { [band |-> ScenarioBand, nodata |-> Nodata(ScenarioSentinel),
       crs |-> "EPSG:4326", native |-> NativeBounds, fault |-> "none"],
      [band |-> << <<Num(5)>>, <<NaN>> >>, nodata |-> NoNodata,
       crs |-> "EPSG:32735", native |-> NativeBounds, fault |-> "none"],
      [band |-> << <<Num(5)>>, <<NaN>> >>, nodata |-> NoNodata,
       crs |-> "EPSG:32735", native |-> NativeBounds, fault |-> "open"],
      [band |-> << <<Num(5)>>, <<NaN>> >>, nodata |-> NoNodata,
       crs |-> "EPSG:32735", native |-> NativeBounds, fault |-> "read"] }

InitApp ==
    /\ fs \in [Paths -> AppFiles]
    /\ RasterIdle
    /\ apc = "import"
    /\ missingLibs \in SUBSET Libs
    /\ eagerAnnotations \in BOOLEAN
    /\ bound = {}
    /\ HAS_OVERLAY = TRUE
    /\ menu = ""
    /\ csv = <<>>
    /\ data = <<>>
    /\ out = <<>>
    /\ opacity = 0
    /\ exc = "none"

\* lines 6-14: the imports run in order; the first that fails ends the try
\* block, so the later names stay unbound.
Import ==
    /\ apc = "import"
    /\ LET failing == {i \in DOMAIN ImportOrder : ImportOrder[i] \in missingLibs}
           firstFail == IF failing = {} THEN Len(ImportOrder) + 1
                        ELSE CHOOSE i \in failing : \A j \in failing : i <= j
       IN /\ bound' = {ImportOrder[i] : i \in 1..(firstFail - 1)}
          /\ HAS_OVERLAY' = (failing = {})
    /\ apc' = "defs"
    /\ UNCHANGED <<fs, rasterVars, missingLibs, eagerAnnotations, menu, csv, data, out,
                   opacity, exc>>

\* lines 20-174: set_page_config and the function definitions.  The def of
\* line 103 has the annotation folium.Map: an interpreter that evaluates
\* annotations when the def runs looks the name folium up there.
Defs ==
    /\ apc = "defs"
    /\ IF eagerAnnotations /\ "folium" \notin bound
       THEN apc' = "crashed" /\ exc' = "NameError"
       ELSE apc' = "sidebar" /\ exc' = exc
    /\ UNCHANGED <<fs, rasterVars, missingLibs, eagerAnnotations, bound, HAS_OVERLAY,
                   menu, csv, data, out, opacity>>

\* lines 180-184: the view chosen in the sidebar.
Sidebar ==
    /\ apc = "sidebar"
    /\ \E m \in Views : menu' = m
    /\ apc' = "load"
    /\ UNCHANGED <<fs, rasterVars, missingLibs, eagerAnnotations, bound, HAS_OVERLAY,
                   csv, data, out, opacity, exc>>

\* line 189: data = load_data()
LoadData ==
    /\ apc = "load"
    /\ \E t \in Tables : csv' = t /\ data' = load_data(t)
    /\ apc' = "validate"
    /\ UNCHANGED <<fs, rasterVars, missingLibs, eagerAnnotations, bound, HAS_OVERLAY,
                   menu, out, opacity, exc>>

\* lines 39-44 called at line 190.
ValidateColumns ==
    /\ apc = "validate"
    /\ LET missing == MissingColumns(data, Required)
       IN IF missing # <<>>
          THEN /\ out' = out \o <<Event("error", missing),
                                  Event("write", data)>>
               /\ apc' = "stopped"
          ELSE /\ out' = out
               /\ apc' = "dispatch"
    /\ UNCHANGED <<fs, rasterVars, missingLibs, eagerAnnotations, bound, HAS_OVERLAY,
                   menu, csv, data, opacity, exc>>

\* lines 196-211
ProjectOverview ==
    /\ apc = "dispatch"
    /\ menu = "Project Overview"
    /\ out' = out \o <<Event("title", "Water Hyacinth Seasonal Monitoring"),
                       Event("subheader", "Study Area"),
                       Event("subheader", "Dataset Preview"),
                       Event("dataframe", data)>>
    /\ apc' = "end"
    /\ UNCHANGED <<fs, rasterVars, missingLibs, eagerAnnotations, bound, HAS_OVERLAY,
                   menu, csv, data, opacity, exc>>

\* lines 217-242
SeasonalDataExplorer ==
    /\ apc = "dispatch"
    /\ menu = "Seasonal Data Explorer"
    /\ out' = out \o <<Event("title", "Seasonal Data Explorer"),
                       Event("subheader", "Hyacinth Coverage"),
                       Event("dataframe", data),
                       Event("subheader", "Area by Month"),
                       Event("bar_chart", "Area_km2")>>
    /\ apc' = "end"
    /\ UNCHANGED <<fs, rasterVars, missingLibs, eagerAnnotations, bound, HAS_OVERLAY,
                   menu, csv, data, opacity, exc>>

\* lines 283-287
Contact ==
    /\ apc = "dispatch"
    /\ menu = "Contact"
    /\ out' = out \o <<Event("header", "Contact Information")>>
    /\ apc' = "end"
    /\ UNCHANGED <<fs, rasterVars, missingLibs, eagerAnnotations, bound, HAS_OVERLAY,
                   menu, csv, data, opacity, exc>>

\* lines 248-257: the title and the guard on HAS_OVERLAY.
MapGuard ==
    /\ apc = "dispatch"
    /\ menu = "Map View"
    /\ IF ~HAS_OVERLAY
       THEN /\ out' = out \o <<Event("title", "Winter vs Summer Raster Comparison"),
                               Event("error", InstallMessage)>>
            /\ apc' = "stopped"
       ELSE /\ out' = out \o <<Event("title", "Winter vs Summer Raster Comparison")>>
            /\ apc' = "mv_slider"
    /\ UNCHANGED <<fs, rasterVars, missingLibs, eagerAnnotations, bound, HAS_OVERLAY,
                   menu, csv, data, opacity, exc>>

\* lines 259-261: the opacity slider, 0.0 to 1.0 in steps of 0.05.
MapSlider ==
    /\ apc = "mv_slider"
    /\ \E o \in OpacitySteps : opacity' = o
    /\ apc' = "mv_winter"
    /\ UNCHANGED <<fs, rasterVars, missingLibs, eagerAnnotations, bound, HAS_OVERLAY,
                   menu, csv, data, out, exc>>

\* lines 269-272 and 274-277: one column.  Nothing catches what
\* build_raster_map raises (line 150): the exception leaves the script.
MapColumn(at, subheader, p, map_title, then) ==
    /\ apc = at
    /\ LET res == classify_raster_to_rgba(p)
       IN IF res.kind = "raised"
          THEN /\ out' = out \o <<Event("subheader", subheader)>>
               /\ apc' = "crashed"
               /\ exc' = "RasterioIOError"
          ELSE /\ out' = out \o <<Event("subheader", subheader),
                                  Event("map", BuildMap(res, map_title, opacity))>>
               /\ apc' = then
               /\ exc' = exc
    /\ UNCHANGED <<fs, rasterVars, missingLibs, eagerAnnotations, bound, HAS_OVERLAY,
                   menu, csv, data, opacity>>

WinterTitle == "Winter 2025 - Hyacinth Classes"
SummerTitle == "Summer 2025 - Hyacinth Classes"

MapWinter == MapColumn("mv_winter", "Winter 2025", WinterTif, WinterTitle, "mv_summer")
MapSummer == MapColumn("mv_summer", "Summer 2025", SummerTif, SummerTitle, "end")

NextApp ==
    \/ Import
    \/ Defs
    \/ Sidebar
    \/ LoadData
    \/ ValidateColumns
    \/ ProjectOverview
    \/ SeasonalDataExplorer
    \/ Contact
    \/ MapGuard
    \/ MapSlider
    \/ MapWinter
    \/ MapSummer

SpecApp == InitApp /\ [][NextApp]_vars

(***************************************************************************)
(* Properties of the script run (checked under SpecApp).                   *)
(***************************************************************************)
Kinds == {out[k].kind : k \in DOMAIN out}
ViewContent == {"title", "header", "subheader", "dataframe", "bar_chart", "map"}

\* The table is loaded and validate_columns has run on it.
Validated == csv # <<>> /\ apc # "validate"

\* The required names that no column of the file has, once the blanks
\* around the column names are dropped.
AbsentFromFile == RequiredSet \ {csv[i].text : i \in DOMAIN csv}

\* C6: with the column names trimmed, a table that lacks a required column
\* makes the run report the missing names and the names found and stop
\* before any view content; a table that lacks none gets no report and the
\* run goes on to the selected view.
C6_ValidationHalts ==
    Validated =>
        IF AbsentFromFile # {}
        THEN /\ apc = "stopped"
             /\ Len(out) = 2
             /\ out[1].kind = "error"
             /\ {out[1].arg[i] : i \in DOMAIN out[1].arg} = AbsentFromFile
             /\ Len(out[1].arg) = Cardinality(AbsentFromFile)
             /\ out[2].kind = "write"
             /\ out[2].arg = [i \in DOMAIN csv |-> Name(csv[i].text)]
             /\ Kinds \cap ViewContent = {}
        ELSE /\ \A k \in DOMAIN out : out[k].kind = "write" => FALSE
             /\ \A k \in DOMAIN out : out[k].kind = "error" => out[k].arg = InstallMessage
             /\ apc \in {"dispatch", "mv_slider", "mv_winter", "mv_summer", "end",
                         "crashed"}
                \/ (apc = "stopped" /\ menu = "Map View" /\ ~HAS_OVERLAY)
             /\ apc = "end" => Kinds \cap ViewContent # {}

\* A file whose header has blanks around every name and no Latitude column
\* made the run stop after reporting missing = ["Latitude"].
C6_Witness ==
    /\ apc = "stopped"
    /\ AbsentFromFile = {"Latitude"}
    /\ \E i \in DOMAIN csv : csv[i].lead > 0
    /\ Len(out) = 2
    /\ out[1].arg = <<"Latitude">>

\* build_raster_map was called for the column with this subheader.
Attempted(subheader) ==
    \E k \in DOMAIN out : out[k].kind = "subheader" /\ out[k].arg = subheader

RasterReadFailed ==
    \/ Attempted("Winter 2025") /\ Fails(fs[WinterTif])
    \/ Attempted("Summer 2025") /\ ~Fails(fs[WinterTif]) /\ Fails(fs[SummerTif])

\* C7: when reading the winter or the summer raster fails in the Map View,
\* the view shows an explanatory message and stops; no exception leaves the
\* script.
C7_ReadFailureReported ==
    RasterReadFailed =>
        /\ exc = "none"
        /\ apc = "stopped"
        /\ "error" \in Kinds

\* C8: whatever optional libraries fail to import, no statement up to the
\* view dispatch raises; the Map View shows the install message and stops,
\* and the other three views render.
C8_DegradesGracefully ==
    missingLibs # {} =>
        /\ exc = "none"
        /\ apc # "crashed"
        /\ apc \notin {"import"} => ~HAS_OVERLAY
        /\ (apc = "stopped" /\ AbsentFromFile = {}) =>
                /\ menu = "Map View"
                /\ out[Len(out)] = Event("error", InstallMessage)
        /\ apc = "end" => menu # "Map View" /\ Kinds \cap ViewContent # {}

\* The maps on the page, in order, with the path each was built from.
MapEvents == SelectSeq(out, LAMBDA e : e.kind = "map")
PathOfMap(n) == IF n = 1 THEN WinterTif ELSE SummerTif
TitleOfMap(n) == IF n = 1 THEN WinterTitle ELSE SummerTitle

\* C10: every map build_raster_map returns carries the overlay at exactly the
\* bounds the classifier returned, is fitted to those same bounds, has the
\* slider's opacity unchanged, and has the legend, at opacity 0.0 too.
C10_OverlayAtBounds ==
    \A n \in DOMAIN MapEvents :
        LET m == MapEvents[n].arg
            res == classify_raster_to_rgba(PathOfMap(n))
        IN /\ res.kind = "ok"
           /\ m.overlay.bounds = res.bounds
           /\ m.overlay.image = res.rgba
           /\ m.fit = res.bounds
           /\ m.overlay.opacity = opacity
           /\ m.legend = TitleOfMap(n)

\* Both maps are on the page at opacity 0.0, fitted and with their legends.
C10_Witness ==
    /\ apc = "end"
    /\ opacity = 0
    /\ Len(MapEvents) = 2
    /\ MapEvents[1].arg.fit = <<<<20, 10>>, <<21, 11>>>>
    /\ MapEvents[2].arg.legend = SummerTitle

====
